---- MODULE Spec2Model ----
(***************************************************************************)
(* Session authentication of auth-test-astro-netlify: token issuance and   *)
(* verification (src/utils/auth.ts), the login function                    *)
(* (netlify/functions/authenticate.ts) and the route gate                  *)
(* (src/middleware.ts).                                                    *)
(*                                                                         *)
(* The repository holds three revisions of the auth utilities.  They       *)
(* differ in the algorithm options handed to jsonwebtoken and in the       *)
(* fallback password; the variable revision says which one is deployed.    *)
(*                                                                         *)
(* Times: Date.now() is in milliseconds, counted from an arbitrary origin  *)
(* so that the values fit the checker's integers; jsonwebtoken works in    *)
(* whole seconds (Math.floor(Date.now() / 1000)).                          *)
(***************************************************************************)
EXTENDS Integers, Sequences, FiniteSets, TLC

VARIABLES revision, env, now, ticks, cookie, last, kept, inflight

vars == <<revision, env, now, ticks, cookie, last, kept, inflight>>

\* the state only the replaying client and the concurrent requests use
extra == <<kept, inflight>>

(***************************************************************************)
(* Bounds of the model.                                                    *)
(***************************************************************************)
MaxTicks == 2

\* requests suspended at the same time in the concurrent specification
MaxRequests == 2

\* Date.now() at start-up, and the amounts by which the clock advances.
StartTimes == {100001999}
ClockSteps == {999, 86399000, 86400001}

(***************************************************************************)
(* Optional values (undefined in the source) are sets of at most one       *)
(* element.                                                                *)
(***************************************************************************)
Undefined == {}
Some(v) == {v}
IsDefined(o) == o # {}
ValueOf(o) == CHOOSE v \in o : TRUE

(***************************************************************************)
(* Configuration.                                                          *)
(***************************************************************************)
Revisions == {"auth.ts", "part_000", "part_001"}

\* process.env: "" stands for a variable that is unset or empty (both falsy).
EnvValues == {[JWT_SECRET |-> "", PROTECTED_PASSWORD |-> ""],
              [JWT_SECRET |-> "prod-signing-key", PROTECTED_PASSWORD |-> "S3cret"]}

\* const JWT_SECRET = process.env.JWT_SECRET || '...'
JWT_SECRET(e) ==
    IF e.JWT_SECRET # "" THEN e.JWT_SECRET
    ELSE "your-secret-key-change-in-production"

\* const PROTECTED_PASSWORD = process.env.PROTECTED_PASSWORD || '...'
DefaultPassword(rev) == IF rev = "auth.ts" THEN "admin123" ELSE "1"

PROTECTED_PASSWORD(rev, e) ==
    IF e.PROTECTED_PASSWORD # "" THEN e.PROTECTED_PASSWORD
    ELSE DefaultPassword(rev)

(***************************************************************************)
(* jsonwebtoken.  A token string is modelled by what it encodes: its form  *)
(* (a three-part JWT, the empty string, a JWT cut short), the header       *)
(* algorithm, the key its signature was made with, and the time claims of  *)
(* its payload (seconds).                                                  *)
(***************************************************************************)
HS_SUPPORTED == {"HS256", "HS384", "HS512"}

\* expiresIn: '1h' in place of '24h'
ExpiresIn_oneHour == 60 * 60

\* expiresIn: '24h', as seconds (timespan('24h', iat) = iat + 86400)
ExpiresIn == 86400

MsPerSecond == 1000

\* Math.floor(Date.now() / 1000)
ClockTimestamp(ms) == ms \div MsPerSecond

\* timestamp is the payload's own claim { timestamp: Date.now() } (milliseconds)
Jwt(alg, key, iat, exp, nbf, timestamp) ==
    [form |-> "jwt", alg |-> alg, key |-> key, iat |-> iat, exp |-> exp,
     nbf |-> nbf, timestamp |-> timestamp]

EmptyString ==
    [form |-> "empty", alg |-> "", key |-> "", iat |-> {}, exp |-> {},
     nbf |-> {}, timestamp |-> {}]

\* a token of which only a leading part is left (fewer than three segments)
Truncated(t) == [t EXCEPT !.form = "truncated"]

\* the algorithm jwt.sign uses: options.algorithm, HS256 when it is not given
SignAlgorithm(rev) == "HS256"

\* jwt.sign(payload, secretOrPrivateKey, {expiresIn, algorithm}) for an object
\* payload with optional iat, exp, nbf claims.  Result: the token, or threw.
jwtSign(payload, key, alg, ms) ==
    LET timestamp == IF IsDefined(payload.iat) /\ payload.iat # Some(0)
                     THEN ValueOf(payload.iat)
                     ELSE ClockTimestamp(ms)
    IN  IF key = "" /\ alg # "none"
        THEN [threw |-> TRUE, error |-> "secretOrPrivateKey must have a value",
              token |-> EmptyString]
        ELSE IF IsDefined(payload.exp)
        THEN [threw |-> TRUE, error |-> "payload already has an exp property",
              token |-> EmptyString]
        ELSE [threw |-> FALSE, error |-> "",
              token |-> Jwt(alg, key, Some(timestamp),
                            Some(timestamp + ExpiresIn), payload.nbf,
                            payload.timestamp)]

\* the algorithms jwt.verify accepts: options.algorithms, and for a plain
\* secret string without that option every HMAC algorithm
VerifyAlgorithms(rev) == IF rev = "part_000" THEN {"HS256"} ELSE HS_SUPPORTED

\* jwt.verify(token, secretOrPublicKey, {algorithms}): "ok" or the error thrown
jwtVerify(token, key, algorithms, ms) ==
    LET clockTimestamp == ClockTimestamp(ms)
    IN  IF token.form = "empty" THEN "JsonWebTokenError: jwt must be provided"
        ELSE IF token.form # "jwt" THEN "JsonWebTokenError: jwt malformed"
        ELSE IF token.alg = "none" /\ key # ""
        THEN "JsonWebTokenError: jwt signature is required"
        ELSE IF token.alg # "none" /\ key = ""
        THEN "JsonWebTokenError: secret or public key must be provided"
        ELSE IF token.alg \notin algorithms
        THEN "JsonWebTokenError: invalid algorithm"
        ELSE IF token.key # key THEN "JsonWebTokenError: invalid signature"
        ELSE IF IsDefined(token.nbf) /\ ValueOf(token.nbf) > clockTimestamp
        THEN "NotBeforeError: jwt not active"
        ELSE IF IsDefined(token.exp) /\ clockTimestamp >= ValueOf(token.exp)
        THEN "TokenExpiredError: jwt expired"
        ELSE "ok"

(***************************************************************************)
(* src/utils/auth.ts                                                       *)
(***************************************************************************)
\* generateToken catching the error of jwt.sign and returning an empty token
generateToken_swallow(payload, rev, e, ms) ==
    LET signed == jwtSign(payload, JWT_SECRET(e), SignAlgorithm(rev), ms)
    IN  IF signed.threw THEN [threw |-> FALSE, error |-> "", token |-> EmptyString]
        ELSE signed

\* generateToken signing with the fallback key whatever the environment holds
generateToken_fallbackKey(payload, rev, e, ms) ==
    jwtSign(payload, "your-secret-key-change-in-production", SignAlgorithm(rev), ms)

\* generateToken(payload): the token, or the error of jwt.sign rethrown
generateToken(payload, rev, e, ms) ==
    jwtSign(payload, JWT_SECRET(e), SignAlgorithm(rev), ms)

\* verifyToken passing { ignoreExpiration: true } to jwt.verify
verifyToken_ignoreExpiration(token, rev, e, ms) ==
    LET r == jwtVerify(token, JWT_SECRET(e), VerifyAlgorithms(rev), ms)
    IN  IF r \in {"ok", "TokenExpiredError: jwt expired"}
        THEN [raised |-> FALSE, value |-> TRUE]
        ELSE [raised |-> FALSE, value |-> FALSE]

\* verifyToken consulting a revocation list filled at logout
verifyToken_revoking(token, rev, e, ms) ==
    LET r == jwtVerify(token, JWT_SECRET(e), VerifyAlgorithms(rev), ms)
    IN  IF r = "ok" /\ Some(token) # kept THEN [raised |-> FALSE, value |-> TRUE]
        ELSE [raised |-> FALSE, value |-> FALSE]

\* verifyToken(token): try { jwt.verify(...); return true } catch { return false }
verifyToken(token, rev, e, ms) ==
    LET r == jwtVerify(token, JWT_SECRET(e), VerifyAlgorithms(rev), ms)
    IN  IF r = "ok" THEN [raised |-> FALSE, value |-> TRUE]
        ELSE [raised |-> FALSE, value |-> FALSE]

\* verifyToken returning true when jwt.verify cannot check for want of a key
verifyTokenWith_failOpen(token, key, rev, ms) ==
    LET r == jwtVerify(token, key, VerifyAlgorithms(rev), ms)
    IN  IF r \in {"ok", "JsonWebTokenError: secret or public key must be provided"}
        THEN [raised |-> FALSE, value |-> TRUE]
        ELSE [raised |-> FALSE, value |-> FALSE]

\* verifyToken(token) with the value of the constant JWT_SECRET given
verifyTokenWith(token, key, rev, ms) ==
    LET r == jwtVerify(token, key, VerifyAlgorithms(rev), ms)
    IN  IF r = "ok" THEN [raised |-> FALSE, value |-> TRUE]
        ELSE [raised |-> FALSE, value |-> FALSE]

\* authenticatePassword comparing after password.trim()
authenticatePassword_trim(password, rev, e) ==
    \/ password = Some([type |-> "string", val |-> PROTECTED_PASSWORD(rev, e)])
    \/ password = Some([type |-> "string", val |-> " " \o PROTECTED_PASSWORD(rev, e)])

\* authenticatePassword comparing with == (a number equals its text)
authenticatePassword_loose(password, rev, e) ==
    /\ IsDefined(password)
    /\ ValueOf(password).type \in {"string", "number"}
    /\ ValueOf(password).val = PROTECTED_PASSWORD(rev, e)

\* authenticatePassword(password): password === PROTECTED_PASSWORD
authenticatePassword(password, rev, e) ==
    password = Some([type |-> "string", val |-> PROTECTED_PASSWORD(rev, e)])

\* the claims createAuthToken passes: { authenticated: true, timestamp: Date.now() }
AuthPayload(ms) ==
    [iat |-> Undefined, exp |-> Undefined, nbf |-> Undefined, timestamp |-> Some(ms)]

\* createAuthToken(): the token, or the error of generateToken rethrown
createAuthToken(rev, e, ms) == generateToken(AuthPayload(ms), rev, e, ms)

(***************************************************************************)
(* netlify/functions/authenticate.ts                                       *)
(***************************************************************************)
\* JavaScript values a JSON body can give the password field; val is the
\* value's text
Str(v) == [type |-> "string", val |-> v]
Num(v) == [type |-> "number", val |-> v]

\* password === undefined in place of !password
Falsy_undefinedOnly(p) == ~IsDefined(p)

\* !password
Falsy(p) ==
    \/ ~IsDefined(p)
    \/ ValueOf(p) \in {Str(""), Num("0"), [type |-> "boolean", val |-> "false"],
                       [type |-> "null", val |-> "null"]}

\* JSON.parse(event.body) without the || '{}': no body and the empty body throw
ParsePassword_noDefault(body) ==
    CASE body.kind \in {"null", "empty", "invalid", "jsonNull"}
                                         -> [threw |-> TRUE, password |-> Undefined]
      [] body.kind = "primitive"         -> [threw |-> FALSE, password |-> Undefined]
      [] body.kind = "object"            -> [threw |-> FALSE, password |-> body.password]

\* const { password } = JSON.parse(event.body || '{}')
\*   body.kind: "null" (no body), "empty" (''), "invalid" (not JSON),
\*   "jsonNull" (the text null), "primitive" (a JSON string, number or array),
\*   "object" (a JSON object, password its password field)
ParsePassword(body) ==
    CASE body.kind \in {"null", "empty"} -> [threw |-> FALSE, password |-> Undefined]
      [] body.kind = "invalid"           -> [threw |-> TRUE, password |-> Undefined]
      [] body.kind = "jsonNull"          -> [threw |-> TRUE, password |-> Undefined]
      [] body.kind = "primitive"         -> [threw |-> FALSE, password |-> Undefined]
      [] body.kind = "object"            -> [threw |-> FALSE, password |-> body.password]

NoToken == Undefined

\* the handler calling authenticatePassword before it tests !password
handler_compareFirst(event, rev, e, ms) ==
    IF event.httpMethod # "POST"
    THEN [statusCode |-> 405, token |-> NoToken, step |-> "method"]
    ELSE LET parsed == ParsePassword(event.body)
         IN  IF parsed.threw
             THEN [statusCode |-> 500, token |-> NoToken, step |-> "parse"]
             ELSE IF ~authenticatePassword(parsed.password, rev, e)
             THEN IF Falsy(parsed.password)
                  THEN [statusCode |-> 400, token |-> NoToken, step |-> "password"]
                  ELSE [statusCode |-> 401, token |-> NoToken, step |-> "password"]
             ELSE LET issued == createAuthToken(rev, e, ms)
                  IN  IF issued.threw
                      THEN [statusCode |-> 500, token |-> NoToken, step |-> "issue"]
                      ELSE [statusCode |-> 200, token |-> Some(issued.token),
                            step |-> "issue"]

\* the handler parsing the body before it tests the method
handler_parseFirst(event, rev, e, ms) ==
    LET parsed == ParsePassword(event.body)
    IN  IF parsed.threw
        THEN [statusCode |-> 500, token |-> NoToken, step |-> "parse"]
        ELSE IF event.httpMethod # "POST"
        THEN [statusCode |-> 405, token |-> NoToken, step |-> "method"]
        ELSE IF Falsy(parsed.password)
        THEN [statusCode |-> 400, token |-> NoToken, step |-> "missing"]
        ELSE IF ~authenticatePassword(parsed.password, rev, e)
        THEN [statusCode |-> 401, token |-> NoToken, step |-> "password"]
        ELSE LET issued == createAuthToken(rev, e, ms)
             IN  IF issued.threw
                 THEN [statusCode |-> 500, token |-> NoToken, step |-> "issue"]
                 ELSE [statusCode |-> 200, token |-> Some(issued.token),
                       step |-> "issue"]

\* the handler without its call of authenticatePassword: every password that
\* is not falsy gets a token
handler_skipCompare(event, rev, e, ms) ==
    IF event.httpMethod # "POST"
    THEN [statusCode |-> 405, token |-> NoToken, step |-> "method"]
    ELSE LET parsed == ParsePassword(event.body)
         IN  IF parsed.threw
             THEN [statusCode |-> 500, token |-> NoToken, step |-> "parse"]
             ELSE IF Falsy(parsed.password)
             THEN [statusCode |-> 400, token |-> NoToken, step |-> "missing"]
             ELSE LET issued == createAuthToken(rev, e, ms)
                  IN  IF issued.threw
                      THEN [statusCode |-> 500, token |-> NoToken, step |-> "issue"]
                      ELSE [statusCode |-> 200, token |-> Some(issued.token),
                            step |-> "issue"]

\* handler(event): status code and the token of the response body, if any
handler(event, rev, e, ms) ==
    IF event.httpMethod # "POST"
    THEN [statusCode |-> 405, token |-> NoToken, step |-> "method"]
    ELSE LET parsed == ParsePassword(event.body)
         IN  IF parsed.threw
             THEN [statusCode |-> 500, token |-> NoToken, step |-> "parse"]
             ELSE IF Falsy(parsed.password)
             THEN [statusCode |-> 400, token |-> NoToken, step |-> "missing"]
             ELSE IF ~authenticatePassword(parsed.password, rev, e)
             THEN [statusCode |-> 401, token |-> NoToken, step |-> "password"]
             ELSE LET issued == createAuthToken(rev, e, ms)
                  IN  IF issued.threw
                      THEN [statusCode |-> 500, token |-> NoToken, step |-> "issue"]
                      ELSE [statusCode |-> 200, token |-> Some(issued.token),
                            step |-> "issue"]

\* handler(event) with the outcome of its call of createAuthToken() given:
\* issued is the token returned or the error thrown
handlerWith(event, rev, e, issued) ==
    IF event.httpMethod # "POST"
    THEN [statusCode |-> 405, token |-> NoToken, step |-> "method"]
    ELSE LET parsed == ParsePassword(event.body)
         IN  IF parsed.threw
             THEN [statusCode |-> 500, token |-> NoToken, step |-> "parse"]
             ELSE IF Falsy(parsed.password)
             THEN [statusCode |-> 400, token |-> NoToken, step |-> "missing"]
             ELSE IF ~authenticatePassword(parsed.password, rev, e)
             THEN [statusCode |-> 401, token |-> NoToken, step |-> "password"]
             ELSE IF issued.threw
             THEN [statusCode |-> 500, token |-> NoToken, step |-> "issue"]
             ELSE [statusCode |-> 200, token |-> Some(issued.token), step |-> "issue"]

(***************************************************************************)
(* src/middleware.ts                                                       *)
(***************************************************************************)
\* url.pathname as its sequence of characters
ProtectedPrefix == <<"/", "p", "r", "o", "j", "e", "c", "t", "s", "/">>

\* pathname.startsWith(prefix)
StartsWith(pathname, prefix) ==
    /\ Len(pathname) >= Len(prefix)
    /\ SubSeq(pathname, 1, Len(prefix)) = prefix

\* return redirect('/login'), after cookies.delete('auth-token', { path: '/' })
\* when deleted, and after a call of verifyToken when verified
Redirect(state, verified, deleted) ==
    [response |-> "redirect", location |-> "/login",
     verified |-> verified, deleted |-> deleted, state |-> state]

\* return next()
Forward(state, verified) ==
    [response |-> "next", location |-> "",
     verified |-> verified, deleted |-> FALSE, state |-> state]

\* the gate without the return in its invalid-token branch
onRequest_fallThrough(pathname, authToken, rev, e, ms) ==
    IF StartsWith(pathname, ProtectedPrefix)
    THEN IF ~IsDefined(authToken)
         THEN Redirect("NoCredential", FALSE, FALSE)
         ELSE LET isValid == verifyToken(ValueOf(authToken), rev, e, ms)
              IN  IF isValid.raised
                  THEN Redirect("CredentialInvalid", TRUE, TRUE)
                  ELSE IF ~isValid.value
                  THEN [Forward("CredentialInvalid", TRUE) EXCEPT !.deleted = TRUE]
                  ELSE Forward("CredentialValid", TRUE)
    ELSE Forward("Unprotected", FALSE)

\* the gate without cookies.delete in its invalid-token branch
onRequest_noDelete(pathname, authToken, rev, e, ms) ==
    IF StartsWith(pathname, ProtectedPrefix)
    THEN IF ~IsDefined(authToken)
         THEN Redirect("NoCredential", FALSE, FALSE)
         ELSE LET isValid == verifyToken(ValueOf(authToken), rev, e, ms)
              IN  IF isValid.raised
                  THEN Redirect("CredentialInvalid", TRUE, TRUE)
                  ELSE IF ~isValid.value
                  THEN Redirect("CredentialInvalid", TRUE, FALSE)
                  ELSE Forward("CredentialValid", TRUE)
    ELSE Forward("Unprotected", FALSE)

\* the gate with the test of isValid inverted
onRequest_inverted(pathname, authToken, rev, e, ms) ==
    IF StartsWith(pathname, ProtectedPrefix)
    THEN IF ~IsDefined(authToken)
         THEN Redirect("NoCredential", FALSE, FALSE)
         ELSE LET isValid == verifyToken(ValueOf(authToken), rev, e, ms)
              IN  IF isValid.raised
                  THEN Redirect("CredentialInvalid", TRUE, TRUE)
                  ELSE IF isValid.value
                  THEN Redirect("CredentialInvalid", TRUE, TRUE)
                  ELSE Forward("CredentialValid", TRUE)
    ELSE Forward("Unprotected", FALSE)

\* the gate clearing the cookie in its no-token branch as well
onRequest_deleteAbsent(pathname, authToken, rev, e, ms) ==
    IF StartsWith(pathname, ProtectedPrefix)
    THEN IF ~IsDefined(authToken)
         THEN Redirect("NoCredential", FALSE, TRUE)
         ELSE LET isValid == verifyToken(ValueOf(authToken), rev, e, ms)
              IN  IF isValid.raised
                  THEN Redirect("CredentialInvalid", TRUE, TRUE)
                  ELSE IF ~isValid.value
                  THEN Redirect("CredentialInvalid", TRUE, TRUE)
                  ELSE Forward("CredentialValid", TRUE)
    ELSE Forward("Unprotected", FALSE)

\* the gate without the test of the path
onRequest_allPaths(pathname, authToken, rev, e, ms) ==
    IF ~IsDefined(authToken)
    THEN Redirect("NoCredential", FALSE, FALSE)
    ELSE LET isValid == verifyToken(ValueOf(authToken), rev, e, ms)
         IN  IF isValid.raised
             THEN Redirect("CredentialInvalid", TRUE, TRUE)
             ELSE IF ~isValid.value
             THEN Redirect("CredentialInvalid", TRUE, TRUE)
             ELSE Forward("CredentialValid", TRUE)

\* the gate testing the cookie's value (!authToken?.value) in place of the
\* cookie: an empty value counts as no cookie
onRequest_emptyIsAbsent(pathname, authToken, rev, e, ms) ==
    IF StartsWith(pathname, ProtectedPrefix)
    THEN IF ~IsDefined(authToken) \/ authToken = Some(EmptyString)
         THEN Redirect("NoCredential", FALSE, FALSE)
         ELSE LET isValid == verifyToken(ValueOf(authToken), rev, e, ms)
              IN  IF isValid.raised
                  THEN Redirect("CredentialInvalid", TRUE, TRUE)
                  ELSE IF ~isValid.value
                  THEN Redirect("CredentialInvalid", TRUE, TRUE)
                  ELSE Forward("CredentialValid", TRUE)
    ELSE Forward("Unprotected", FALSE)

\* onRequest(context, next): the response, whether verifyToken was called and
\* whether cookies.delete was performed.  authToken is
\* cookies.get('auth-token'): Undefined when the request has no such cookie.
onRequest(pathname, authToken, rev, e, ms) ==
    IF StartsWith(pathname, ProtectedPrefix)
    THEN IF ~IsDefined(authToken)
         THEN Redirect("NoCredential", FALSE, FALSE)
         ELSE LET isValid == verifyToken(ValueOf(authToken), rev, e, ms)
              IN  IF isValid.raised
                  THEN Redirect("CredentialInvalid", TRUE, TRUE)
                  ELSE IF ~isValid.value
                  THEN Redirect("CredentialInvalid", TRUE, TRUE)
                  ELSE Forward("CredentialValid", TRUE)
    ELSE Forward("Unprotected", FALSE)

\* the gate without the catch around its call of verifyToken: the exception
\* leaves onRequest
onRequestWith_escapes(pathname, authToken, isValid) ==
    IF StartsWith(pathname, ProtectedPrefix)
    THEN IF ~IsDefined(authToken)
         THEN Redirect("NoCredential", FALSE, FALSE)
         ELSE IF isValid.raised
         THEN [response |-> "exception", location |-> "", verified |-> TRUE,
               deleted |-> FALSE, state |-> "CredentialInvalid"]
         ELSE IF ~isValid.value
         THEN Redirect("CredentialInvalid", TRUE, TRUE)
         ELSE Forward("CredentialValid", TRUE)
    ELSE Forward("Unprotected", FALSE)

\* onRequest(context, next) with the outcome of await verifyToken(...) given:
\* isValid is the value returned or the exception raised
onRequestWith(pathname, authToken, isValid) ==
    IF StartsWith(pathname, ProtectedPrefix)
    THEN IF ~IsDefined(authToken)
         THEN Redirect("NoCredential", FALSE, FALSE)
         ELSE IF isValid.raised
         THEN Redirect("CredentialInvalid", TRUE, TRUE)
         ELSE IF ~isValid.value
         THEN Redirect("CredentialInvalid", TRUE, TRUE)
         ELSE Forward("CredentialValid", TRUE)
    ELSE Forward("Unprotected", FALSE)

(***************************************************************************)
(* The requests the environment sends.                                     *)
(***************************************************************************)
PathProjectsX == ProtectedPrefix \o <<"x">>
PathProjectsRoot == ProtectedPrefix
PathProjectsBare == <<"/", "p", "r", "o", "j", "e", "c", "t", "s">>
PathPublicX == <<"/", "p", "u", "b", "l", "i", "c", "/", "x">>
PathLogin == <<"/", "l", "o", "g", "i", "n">>

Paths == {PathProjectsX, PathProjectsRoot, PathProjectsBare, PathPublicX, PathLogin}

\* the paths a logged-in client asks for
ProtectedRequests == {PathProjectsX, PathProjectsRoot}


PasswordValues ==
    {Str("admin123"), Str("1"), Str("S3cret"), Str("s3cret"), Str(" S3cret"),
     Str(""), Num("1"), Num("0")}

Bodies ==
    {[kind |-> k, password |-> Undefined] :
        k \in {"null", "empty", "invalid", "jsonNull", "primitive", "object"}}
    \cup {[kind |-> "object", password |-> Some(v)] : v \in PasswordValues}

\* event.httpMethod and event.body of the requests to the login function
Events ==
    [httpMethod : {"POST"}, body : Bodies]
    \cup [httpMethod : {"GET"},
          body : {[kind |-> "null", password |-> Undefined],
                  [kind |-> "invalid", password |-> Undefined],
                  [kind |-> "object", password |-> Some(Str("admin123"))],
                  [kind |-> "object", password |-> Some(Str("1"))],
                  [kind |-> "object", password |-> Some(Str("S3cret"))]}]

\* cookie values a client can make up without logging in: the empty string, a
\* token signed with a key of its own, tokens carrying the configured key's
\* signature under another algorithm, an unsigned token, a token cut short
Forged(e, ms) ==
    LET iat == Some(ClockTimestamp(ms))
        exp == Some(ClockTimestamp(ms) + ExpiresIn)
    IN  {EmptyString,
         Jwt("HS256", "attacker-key", iat, exp, Undefined, Some(ms)),
         Jwt("HS384", JWT_SECRET(e), iat, exp, Undefined, Some(ms)),
         Jwt("none", "", iat, exp, Undefined, Some(ms)),
         Truncated(Jwt("HS256", JWT_SECRET(e), iat, exp, Undefined, Some(ms)))}

\* claim mappings handed to generateToken
Payloads(ms) ==
    [iat : {Undefined, Some(0), Some(ClockTimestamp(ms)),
            Some(ClockTimestamp(ms) - ExpiresIn)},
     exp : {Undefined, Some(ClockTimestamp(ms) + 60)},
     nbf : {Undefined, Some(ClockTimestamp(ms)), Some(ClockTimestamp(ms) + 60)},
     timestamp : {Some(ms)}]

(***************************************************************************)
(* The state machine.                                                      *)
(***************************************************************************)
Init ==
    /\ revision \in Revisions
    /\ env \in EnvValues
    /\ now \in StartTimes
    /\ ticks = 0
    /\ cookie = Undefined
    /\ last = [op |-> "start"]
    /\ kept = Undefined
    /\ inflight = <<>>

\* the clock advances
Tick(d) ==
    /\ ticks < MaxTicks
    /\ now' = now + d
    /\ ticks' = ticks + 1
    /\ last' = [op |-> "tick"]
    /\ UNCHANGED <<revision, env, cookie, extra>>

\* a request to the login function
Login(event) ==
    /\ last' = [op |-> "login", event |-> event, at |-> now,
                cookieBefore |-> cookie,
                response |-> handler(event, revision, env, now)]
    /\ UNCHANGED <<revision, env, now, ticks, cookie, extra>>

\* the login page stores the token of a 200 response in the auth-token cookie
StoreCredential ==
    /\ last.op = "login"
    /\ last.response.statusCode = 200
    /\ cookie' = last.response.token
    /\ last' = [op |-> "store"]
    /\ UNCHANGED <<revision, env, now, ticks, extra>>

\* the logout page clears the auth-token cookie
Logout ==
    /\ cookie' = Undefined
    /\ last' = [op |-> "logout"]
    /\ UNCHANGED <<revision, env, now, ticks, extra>>

\* a client sets the auth-token cookie to a value of its own making
Present(t) ==
    /\ cookie' = Some(t)
    /\ last' = [op |-> "present"]
    /\ UNCHANGED <<revision, env, now, ticks, extra>>

\* a request passes the middleware; the browser applies the cookie deletion
\* the response carries
Request(pathname) ==
    LET r == onRequest(pathname, cookie, revision, env, now)
    IN  /\ last' = [op |-> "gate", pathname |-> pathname, at |-> now,
                    cookieBefore |-> cookie, result |-> r]
        /\ cookie' = IF r.deleted THEN Undefined ELSE cookie
        /\ UNCHANGED <<revision, env, now, ticks, extra>>

\* a direct call of generateToken
Issue(payload) ==
    /\ last' = [op |-> "issue", payload |-> payload, at |-> now,
                result |-> generateToken(payload, revision, env, now)]
    /\ UNCHANGED <<revision, env, now, ticks, cookie, extra>>

\* a direct call of authenticatePassword
Authenticate(password) ==
    /\ last' = [op |-> "authenticate", password |-> password,
                result |-> authenticatePassword(Some(password), revision, env)]
    /\ UNCHANGED <<revision, env, now, ticks, cookie, extra>>

Next ==
    \/ \E pw \in PasswordValues : Authenticate(pw)
    \/ \E d \in ClockSteps : Tick(d)
    \/ \E ev \in Events : Login(ev)
    \/ StoreCredential
    \/ Logout
    \/ \E t \in Forged(env, now) : Present(t)
    \/ \E p \in Paths : Request(p)
    \/ \E c \in Payloads(now) : Issue(c)

Spec == Init /\ [][Next]_vars

(***************************************************************************)
(* Faults of the collaborators: the verifier raising into the gate, and    *)
(* jwt.sign failing under an unusable key.  Neither happens in Spec, where *)
(* verifyToken catches everything and JWT_SECRET is never empty.           *)
(***************************************************************************)
Raised == [raised |-> TRUE, value |-> FALSE]

UnusableKey == ""

\* a request passes the middleware and its call of verifyToken raises
RequestVerifierRaises(pathname) ==
    LET r == onRequestWith(pathname, cookie, Raised)
    IN  /\ r.verified
        /\ last' = [op |-> "gateFault", pathname |-> pathname, at |-> now,
                    cookieBefore |-> cookie, result |-> r]
        /\ cookie' = IF r.deleted THEN Undefined ELSE cookie
        /\ UNCHANGED <<revision, env, now, ticks, extra>>

\* a request to the login function whose call of createAuthToken finds the
\* signing key unusable
LoginSigningFails(event) ==
    LET issued == jwtSign(AuthPayload(now), UnusableKey, SignAlgorithm(revision), now)
        response == handlerWith(event, revision, env, issued)
    IN  /\ response.step = "issue"
        /\ last' = [op |-> "loginFault", event |-> event, at |-> now,
                    cookieBefore |-> cookie, issued |-> issued,
                    response |-> response]
        /\ UNCHANGED <<revision, env, now, ticks, cookie, extra>>

\* a request passes the middleware and its call of verifyToken finds the key
\* unusable: jwt.verify throws inside verifyToken
RequestKeyUnusable(pathname) ==
    LET isValid == IF IsDefined(cookie)
                   THEN verifyTokenWith(ValueOf(cookie), UnusableKey, revision, now)
                   ELSE Raised
        r == onRequestWith(pathname, cookie, isValid)
    IN  /\ r.verified
        /\ last' = [op |-> "gateKeyFault", pathname |-> pathname, at |-> now,
                    cookieBefore |-> cookie, result |-> r]
        /\ cookie' = IF r.deleted THEN Undefined ELSE cookie
        /\ UNCHANGED <<revision, env, now, ticks, extra>>

NextFault ==
    \/ Next
    \/ \E p \in Paths : RequestVerifierRaises(p)
    \/ \E ev \in Events : LoginSigningFails(ev)
    \/ \E p \in Paths : RequestKeyUnusable(p)

SpecFault == Init /\ [][NextFault]_vars

(***************************************************************************)
(* A client that keeps a copy of its credential when it logs out and       *)
(* presents the copy again.                                                *)
(***************************************************************************)
\* the logout page clears the auth-token cookie; the client has copied it
LogoutKeeping ==
    /\ IsDefined(cookie)
    /\ kept' = cookie
    /\ cookie' = Undefined
    /\ last' = [op |-> "logout"]
    /\ UNCHANGED <<revision, env, now, ticks, inflight>>

\* the client sets the auth-token cookie to the copy it kept
Replay ==
    /\ IsDefined(kept)
    /\ cookie' = kept
    /\ last' = [op |-> "replay"]
    /\ UNCHANGED <<revision, env, now, ticks, extra>>

\* the logins of the replaying client: the passwords that are right under
\* some configuration, and one that is wrong under all
ReplayEvents ==
    [httpMethod : {"POST"},
     body : {[kind |-> "object", password |-> Some(Str(v))] :
                v \in {"admin123", "1", "S3cret", "s3cret"}}]

NextReplay ==
    \/ \E d \in ClockSteps : Tick(d)
    \/ \E ev \in ReplayEvents : Login(ev)
    \/ StoreCredential
    \/ Logout
    \/ Present(EmptyString)
    \/ \E p \in {PathProjectsX, PathPublicX} : Request(p)
    \/ LogoutKeeping
    \/ Replay

SpecReplay == Init /\ [][NextReplay]_vars

(***************************************************************************)
(* Requests in parallel.  onRequest runs up to its await of verifyToken    *)
(* (which evaluates jwt.verify during the call), and resumes later with    *)
(* the value awaited; other requests and the clock move in between.  The   *)
(* login function has no await and runs in one step (Login).  inflight     *)
(* holds the requests suspended at the await, in the order they entered,   *)
(* each with the local variables of its invocation.                        *)
(***************************************************************************)
NotCalled == [raised |-> FALSE, value |-> FALSE]

\* the response of a request of the middleware, as the state records it
Served(pathname, authToken, at, r) ==
    [op |-> "served", pathname |-> pathname, authToken |-> authToken,
     at |-> at, result |-> r]

\* isValid as a variable of the module instead of the invocation: every
\* suspended request reads what the latest call of verifyToken returned
AwaitedResult_shared(i) == inflight[Len(inflight)].isValid

\* const isValid = await verifyToken(authToken.value), local to the invocation
AwaitedResult(i) == inflight[i].isValid

\* a request enters the middleware: it responds at once when it does not call
\* the verifier, and is suspended at the await when it does
GateEnter(pathname) ==
    LET isValid == IF IsDefined(cookie)
                   THEN verifyToken(ValueOf(cookie), revision, env, now)
                   ELSE NotCalled
        r == onRequestWith(pathname, cookie, isValid)
    IN  IF r.verified
        THEN /\ Len(inflight) < MaxRequests
             /\ inflight' = Append(inflight,
                    [pathname |-> pathname, authToken |-> cookie,
                     at |-> now, isValid |-> isValid])
             /\ UNCHANGED <<revision, env, now, ticks, cookie, last, kept>>
        ELSE /\ last' = Served(pathname, cookie, now, r)
             /\ cookie' = IF r.deleted THEN Undefined ELSE cookie
             /\ UNCHANGED <<revision, env, now, ticks, kept, inflight>>

\* a suspended request resumes and responds; the browser applies the cookie
\* deletion the response carries
GateResume(i) ==
    LET q == inflight[i]
        r == onRequestWith(q.pathname, q.authToken, AwaitedResult(i))
    IN  /\ inflight' = SubSeq(inflight, 1, i - 1)
                         \o SubSeq(inflight, i + 1, Len(inflight))
        /\ last' = Served(q.pathname, q.authToken, q.at, r)
        /\ cookie' = IF r.deleted THEN Undefined ELSE cookie
        /\ UNCHANGED <<revision, env, now, ticks, kept>>

\* the login requests of the concurrent specification: a POST with one of
\* the passwords some configuration accepts
ConcEvents ==
    [httpMethod : {"POST"},
     body : {[kind |-> "object", password |-> Some(Str(v))] :
                v \in {"admin123", "1", "S3cret"}}]

\* the clock steps of the concurrent specification: within a second, and past
\* the validity window
ConcSteps == {999, 86400001}

NextConc ==
    \/ \E d \in ConcSteps : Tick(d)
    \/ \E p \in {PathProjectsX, PathPublicX} : GateEnter(p)
    \/ \E i \in DOMAIN inflight : GateResume(i)
    \/ \E ev \in ConcEvents : Login(ev)
    \/ StoreCredential
    \/ Present(EmptyString)

SpecConc == Init /\ [][NextConc]_vars

(***************************************************************************)
(* One browser session: the client logs in, stores the token of a 200      *)
(* response, and sends requests under /projects/ while the clock advances  *)
(* (README, Detailed Flow).  The clock never stops; in the bounded run its  *)
(* last step is one longer than the validity window, and a credential is   *)
(* stored only while the clock has a step left.                            *)
(***************************************************************************)
\* a clock step that outlasts every credential alive when it is taken
LongStep(d) == d >= ExpiresIn * MsPerSecond

SessionTick(d) ==
    /\ LongStep(d) \/ ticks + 1 < MaxTicks
    /\ Tick(d)

SessionStore ==
    /\ ticks < MaxTicks
    /\ StoreCredential

NextSession ==
    \/ \E d \in ClockSteps : SessionTick(d)
    \/ \E ev \in ReplayEvents : Login(ev)
    \/ SessionStore
    \/ \E p \in ProtectedRequests : Request(p)

\* the clock is fair: it does not stop while it can advance
SpecSession ==
    Init /\ [][NextSession]_vars /\ WF_vars(\E d \in ClockSteps : SessionTick(d))

\* onRequest and handler are onRequestWith and handlerWith applied to the
\* outcomes of the calls they make
WithAgrees ==
    /\ \A p \in Paths :
          onRequest(p, cookie, revision, env, now)
              = onRequestWith(p, cookie,
                    IF IsDefined(cookie)
                    THEN verifyToken(ValueOf(cookie), revision, env, now)
                    ELSE Raised)
    /\ \A ev \in Events :
          handler(ev, revision, env, now)
              = handlerWith(ev, revision, env, createAuthToken(revision, env, now))
    /\ \A t \in cookie :
          verifyToken(t, revision, env, now)
              = verifyTokenWith(t, JWT_SECRET(env), revision, now)

TypeOK ==
    /\ revision \in Revisions
    /\ env \in EnvValues
    /\ now \in Nat
    /\ ticks \in 0..MaxTicks
    /\ Cardinality(cookie) <= 1

(***************************************************************************)
(* Properties.                                                             *)
(***************************************************************************)
\* the request paths of the model that lie under /projects/
ProtectedPaths == {PathProjectsX, PathProjectsRoot}

\* the last step was a pass through the gate, for a path under /projects/
ProtectedRequest == last.op = "gate" /\ last.pathname \in ProtectedPaths

\* the last step was a pass through the gate that presented a credential for
\* which verifyToken returned v
PresentedWith(v) ==
    /\ IsDefined(last.cookieBefore)
    /\ verifyToken(ValueOf(last.cookieBefore), revision, env, last.at).value = v

RedirectedToLogin ==
    last.result.response = "redirect" /\ last.result.location = "/login"

\* C1: a request under the protected prefix is forwarded only if it carries a
\* credential for which verifyToken returns true at that moment; every other
\* request under the prefix is redirected to /login and not forwarded.
C1_ForwardOnlyIfVerified ==
    ProtectedRequest =>
        /\ last.result.response = "next" => PresentedWith(TRUE)
        /\ ~PresentedWith(TRUE) => RedirectedToLogin

C1_Witness ==
    /\ last.op = "gate"
    /\ last.pathname = PathProjectsRoot
    /\ last.result.response = "next"
    /\ ticks > 0

\* t is the credential createAuthToken returns at time T (milliseconds)
IssuedAt(t, T) ==
    /\ t.timestamp = Some(T)
    /\ createAuthToken(revision, env, T) = [threw |-> FALSE, error |-> "", token |-> t]

ValidityWindowMs == 24 * 60 * 60 * 1000

\* the start of the second T lies in, plus 24 hours
ExpiryMs(T) == (T - (T % 1000)) + ValidityWindowMs

\* C2 as stated: a credential issued at T verifies at every time in
\* [T, T + 24h) and fails at every later time.
C2_ValidUntilIssuePlus24h ==
    \A t \in cookie : \A T \in t.timestamp :
        (IssuedAt(t, T) /\ now >= T) =>
            (verifyToken(t, revision, env, now).value <=> now < T + ValidityWindowMs)

\* C2 amended: a credential issued at T verifies at every time in [T, E) and
\* fails at every time from E on, where E is the start of the second of T plus
\* 24 hours: the expiry is kept in whole seconds, so E lies up to 999 ms
\* before T + 24h.
C2_ValidUntilExpirySecond ==
    \A t \in cookie : \A T \in t.timestamp :
        (IssuedAt(t, T) /\ now >= T) =>
            (verifyToken(t, revision, env, now).value <=> now < ExpiryMs(T))

C2_Witness ==
    \E t \in cookie : \E T \in t.timestamp :
        /\ IssuedAt(t, T)
        /\ now >= ExpiryMs(T)
        /\ now < T + ValidityWindowMs
        /\ ~verifyToken(t, revision, env, now).value

\* C3 as stated: for every claim mapping, reserved time claims included,
\* generateToken returns a credential that verifies immediately.
C3_EveryMappingVerifies ==
    last.op = "issue" =>
        /\ ~last.result.threw
        /\ verifyToken(last.result.token, revision, env, last.at).value

\* the mapping has no exp claim, no iat claim 24 hours or more in the past and
\* no nbf claim in the future
TimeClaimsAdmissible(c, ms) ==
    /\ ~IsDefined(c.exp)
    /\ \A iat \in c.iat : iat + 24 * 60 * 60 > ms \div 1000
    /\ \A nbf \in c.nbf : nbf <= ms \div 1000

\* C3 amended: for every claim mapping without an exp claim, without an iat
\* claim 24 hours or more in the past and without an nbf claim in the future,
\* generateToken returns a credential that verifies immediately.
C3_AdmissibleMappingVerifies ==
    (last.op = "issue" /\ TimeClaimsAdmissible(last.payload, last.at)) =>
        /\ ~last.result.threw
        /\ verifyToken(last.result.token, revision, env, last.at).value

C3_Witness ==
    /\ last.op = "issue"
    /\ IsDefined(last.payload.iat)
    /\ IsDefined(last.payload.nbf)
    /\ TimeClaimsAdmissible(last.payload, last.at)
    /\ env.JWT_SECRET # ""
    /\ ~last.result.threw

\* s is a JWT signed with the configured key under HS256 whose time claims
\* admit the time ms
ValidUnderPinnedAlgorithm(s, ms) ==
    /\ s.form = "jwt"
    /\ s.alg = "HS256"
    /\ s.key = JWT_SECRET(env)
    /\ \A exp \in s.exp : ms \div 1000 < exp
    /\ \A nbf \in s.nbf : nbf <= ms \div 1000

\* C4: for every string that is not a validly signed, unexpired token under
\* the configured key (empty, truncated, signed with another key, signed with
\* another algorithm), verifyToken returns false and does not raise.
C4_InvalidInputIsFalse ==
    \A s \in cookie :
        ~ValidUnderPinnedAlgorithm(s, now) =>
            verifyToken(s, revision, env, now) = [raised |-> FALSE, value |-> FALSE]

\* C5: generateToken signs with HS256 only, and verifyToken returns true only
\* for tokens whose header algorithm is HS256.
C5_AlgorithmPinned ==
    /\ last.op = "issue" /\ ~last.result.threw => last.result.token.alg = "HS256"
    /\ \A t \in cookie :
          verifyToken(t, revision, env, now).value => t.alg = "HS256"

\* the last step was a POST to the login function whose body is a JSON object
\* with a password field
LoginPostWith(p) ==
    /\ last.op = "login"
    /\ last.event.httpMethod = "POST"
    /\ last.event.body.kind = "object"
    /\ last.event.body.password = Some(p)

ConfiguredSecret == Str(PROTECTED_PASSWORD(revision, env))

\* a password that is neither the empty string nor zero, the values of the
\* model's passwords that JavaScript takes for false
NonEmptyPassword(p) == p \notin {Str(""), Num("0")}

\* C6: a POST with the configured secret is answered 200 with a credential
\* that verifies; a POST with a non-empty password other than the secret is
\* answered 401 without a credential, and nothing is changed.
C6_LoginScenario ==
    \A p \in PasswordValues :
        LoginPostWith(p) =>
            /\ p = ConfiguredSecret =>
                  /\ last.response.statusCode = 200
                  /\ IsDefined(last.response.token)
                  /\ \A t \in last.response.token :
                        verifyToken(t, revision, env, last.at).value
            /\ (p # ConfiguredSecret /\ NonEmptyPassword(p)) =>
                  /\ last.response.statusCode = 401
                  /\ last.response.token = NoToken
                  /\ cookie = last.cookieBefore

C6_Witness ==
    /\ LoginPostWith(ConfiguredSecret)
    /\ last.response.statusCode = 200
    /\ env.PROTECTED_PASSWORD = ""

\* C7: a request under the protected prefix with a credential that fails
\* verification has the auth-token cookie deleted and is redirected to
\* /login; afterwards the carrier is empty and the request was not forwarded.
C7_InvalidCredentialCleared ==
    (ProtectedRequest /\ PresentedWith(FALSE)) =>
        /\ last.result.deleted
        /\ RedirectedToLogin
        /\ cookie = Undefined

C7_Witness ==
    /\ ProtectedRequest
    /\ \E t \in last.cookieBefore :
          jwtVerify(t, JWT_SECRET(env), VerifyAlgorithms(revision), last.at)
              = "TokenExpiredError: jwt expired"
    /\ cookie = Undefined

\* C8: a request under the protected prefix with a credential that verifies is
\* forwarded, not redirected, and the auth-token cookie is left as it was.
C8_ValidCredentialForwarded ==
    (ProtectedRequest /\ PresentedWith(TRUE)) =>
        /\ last.result.response = "next"
        /\ ~last.result.deleted
        /\ cookie = last.cookieBefore

C8_Witness ==
    /\ last.op = "gate"
    /\ last.pathname = PathProjectsX
    /\ PresentedWith(TRUE)
    /\ cookie = last.cookieBefore

\* C9: a request under the protected prefix without an auth-token cookie is
\* redirected to /login; the verifier is not called and nothing is deleted.
C9_NoCredentialRedirected ==
    (ProtectedRequest /\ ~IsDefined(last.cookieBefore)) =>
        /\ RedirectedToLogin
        /\ ~last.result.verified
        /\ ~last.result.deleted
        /\ cookie = last.cookieBefore

C9_Witness ==
    /\ ProtectedRequest
    /\ ~IsDefined(last.cookieBefore)
    /\ last.result.state = "NoCredential"

\* C10: a request whose path is not under the protected prefix is forwarded
\* whatever the cookie holds; the verifier is not called and the cookie is
\* not cleared.
C10_UnprotectedForwarded ==
    (last.op = "gate" /\ last.pathname \notin ProtectedPaths) =>
        /\ last.result.response = "next"
        /\ ~last.result.verified
        /\ ~last.result.deleted
        /\ cookie = last.cookieBefore

C10_Witness ==
    /\ last.op = "gate"
    /\ last.pathname = PathProjectsBare
    /\ PresentedWith(FALSE)
    /\ last.result.response = "next"

\* C11: authenticatePassword(s) is true if and only if s is exactly the
\* configured secret: a value that differs in case, in surrounding blanks, in
\* any character or in type is refused.
C11_ExactSecretOnly ==
    last.op = "authenticate" =>
        (last.result <=> last.password = ConfiguredSecret)

C11_Witness ==
    /\ last.op = "authenticate"
    /\ env.PROTECTED_PASSWORD = "S3cret"
    /\ last.password = Str(" S3cret")
    /\ ~last.result

\* C12: when the gate's call of the verifier raises, the gate does what it
\* does for an invalid credential: it deletes the auth-token cookie, redirects
\* to /login and does not forward; no exception leaves the gate.
C12_FailClosed ==
    last.op = "gateFault" =>
        /\ last.result = Redirect("CredentialInvalid", TRUE, TRUE)
        /\ last.result
              = onRequestWith(last.pathname, last.cookieBefore,
                              [raised |-> FALSE, value |-> FALSE])
        /\ cookie = Undefined

C12_Witness ==
    /\ last.op = "gateFault"
    /\ last.pathname = PathProjectsX
    /\ IsDefined(last.cookieBefore)
    /\ last.result.deleted
    /\ cookie = Undefined

\* the last step was a POST to the login function
LoginPost == last.op = "login" /\ last.event.httpMethod = "POST"

\* the body gives no secret: there is no body, the body is empty, or it is
\* JSON without a password field
SecretAbsent(body) ==
    \/ body.kind \in {"null", "empty", "primitive"}
    \/ body.kind = "object" /\ body.password = Undefined

\* the body is not JSON, or JSON (the value null) that has no fields to read
Unparseable(body) == body.kind \in {"invalid", "jsonNull"}

\* C13 as stated: a login request whose secret is missing or whose body
\* cannot be parsed is answered 400, without a credential.
C13_MalformedIs400 ==
    (LoginPost /\ (SecretAbsent(last.event.body) \/ Unparseable(last.event.body))) =>
        /\ last.response.statusCode = 400
        /\ last.response.token = NoToken

\* C13 amended: a POST whose secret is missing (no body, an empty body, JSON
\* without a password field) is answered 400; a POST whose body is not JSON,
\* or is the JSON value null, is answered 500; neither carries a credential.
C13_MissingIs400UnparseableIs500 ==
    LoginPost =>
        /\ SecretAbsent(last.event.body) =>
              last.response.statusCode = 400 /\ last.response.token = NoToken
        /\ Unparseable(last.event.body) =>
              last.response.statusCode = 500 /\ last.response.token = NoToken

C13_Witness ==
    /\ LoginPost
    /\ last.event.body.kind = "invalid"
    /\ last.response.statusCode = 500
    /\ last.response.token = NoToken

\* the password field of the body, where the body parses: missing when it is
\* absent or empty, else right or wrong
SecretMissing(body) ==
    \/ SecretAbsent(body)
    \/ body.kind = "object" /\ \E p \in body.password : ~NonEmptyPassword(p)

SecretRight(body) == body.kind = "object" /\ body.password = Some(ConfiguredSecret)

SecretWrong(body) ==
    ~Unparseable(body) /\ ~SecretMissing(body) /\ ~SecretRight(body)

\* C14: the login function answers every request with one status of 405,
\* 400, 401, 200, 500: 405 iff the method is not POST, 400 iff POST and the
\* secret is missing, 401 iff the secret is present and wrong, 200 with a
\* credential iff the secret is right and issuance succeeds, 500 iff parsing
\* or issuance fails.
C14_HandlerTotal ==
    last.op \in {"login", "loginFault"} =>
        LET post == last.event.httpMethod = "POST"
            body == last.event.body
            signingFails == last.op = "loginFault"
            status == last.response.statusCode
        IN  /\ status \in {405, 400, 401, 200, 500}
            /\ status = 405 <=> ~post
            /\ status = 400 <=> post /\ SecretMissing(body)
            /\ status = 401 <=> post /\ SecretWrong(body)
            /\ status = 200 <=> post /\ SecretRight(body) /\ ~signingFails
            /\ status = 500 <=>
                  post /\ (Unparseable(body) \/ (SecretRight(body) /\ signingFails))
            /\ status = 200 <=> IsDefined(last.response.token)

C14_Witness ==
    /\ last.op = "loginFault"
    /\ SecretRight(last.event.body)
    /\ last.response.statusCode = 500

\* C15: there is no revocation.  A credential issued at T that the client
\* kept through its logout verifies at every time before its expiry, whatever
\* happened since (logout, further logins, the gate clearing the cookie,
\* failed logins), and fails from its expiry on; presented again on a
\* protected request before its expiry it is forwarded.
C15_NoRevocation ==
    \A t \in kept : \A T \in t.timestamp :
        (IssuedAt(t, T) /\ now >= T) =>
            /\ verifyToken(t, revision, env, now).value <=> now < ExpiryMs(T)
            /\ (ProtectedRequest /\ last.cookieBefore = kept /\ now < ExpiryMs(T)) =>
                  last.result.response = "next"

C15_Witness ==
    /\ ProtectedRequest
    /\ \E t \in kept : \E T \in t.timestamp : IssuedAt(t, T) /\ now > T
    /\ last.cookieBefore = kept
    /\ last.result.response = "next"

\* C16: a failure of signing is not swallowed.  When jwt.sign throws inside
\* generateToken, generateToken throws and returns no token; when
\* createAuthToken throws under an unusable signing key, the login function
\* answers 500 without a credential.
C16_IssuanceFailureSurfaces ==
    /\ last.op = "issue" =>
          (jwtSign(last.payload, JWT_SECRET(env), "HS256", last.at).threw
              => last.result.threw)
    /\ last.op = "loginFault" =>
          /\ last.issued.threw
          /\ last.response.statusCode = 500
          /\ last.response.token = NoToken

C16_Witness ==
    /\ last.op = "loginFault"
    /\ last.issued.threw
    /\ last.event.body.password = Some(ConfiguredSecret)
    /\ last.response.token = NoToken

\* the defaults the README documents
DocumentedDefaultPassword == "1"
DocumentedDefaultKey == "your-secret-key-change-in-production"

\* C17: with the signing key and the shared secret unset, both fall back to
\* the documented defaults: a POST with the documented default password is
\* answered 200 with a credential signed with the documented default key, and
\* a protected request carrying that credential is forwarded.
C17_FallbackDefaults ==
    (env.JWT_SECRET = "" /\ env.PROTECTED_PASSWORD = "") =>
        /\ LoginPostWith(Str(DocumentedDefaultPassword)) =>
              /\ last.response.statusCode = 200
              /\ \A t \in last.response.token :
                    /\ t.key = DocumentedDefaultKey
                    /\ verifyToken(t, revision, env, last.at).value
        /\ (ProtectedRequest /\ \E t \in last.cookieBefore :
                IssuedAt(t, last.at) /\ t.key = DocumentedDefaultKey) =>
              last.result.response = "next"

\* C18: with PROTECTED_PASSWORD unset the password is 1:
\* authenticatePassword('1') is true, a POST with password '1' is answered
\* 200 and a POST with any other password 401.
C18_DefaultPasswordIsOne ==
    env.PROTECTED_PASSWORD = "" =>
        /\ (last.op = "authenticate" /\ last.password = Str("1")) => last.result
        /\ \A p \in PasswordValues :
              LoginPostWith(p) =>
                  /\ p = Str("1") => last.response.statusCode = 200
                  /\ (p # Str("1") /\ NonEmptyPassword(p)) =>
                        last.response.statusCode = 401

\* C20: requests in parallel need no coordination.  Whatever the
\* interleaving of the steps of gate requests, login requests and the clock,
\* a request that has responded has the outcome it has alone at the clock
\* time it was handled (forward or redirect, cookie deleted or not, status
\* code and token), and a protected request is forwarded only with a
\* credential that verified at that time.
C20_OutcomeAsAlone ==
    /\ last.op = "served" =>
          /\ last.result
                = onRequest(last.pathname, last.authToken, revision, env, last.at)
          /\ (last.pathname \in ProtectedPaths /\ last.result.response = "next") =>
                \E t \in last.authToken :
                    verifyToken(t, revision, env, last.at).value
    /\ last.op = "login" =>
          last.response = handler(last.event, revision, env, last.at)

\* a protected request that entered with a credential that does not verify
\* has been refused after its await, while a request that entered later with
\* another credential, a valid one, is still suspended
C20_Witness ==
    /\ last.op = "served"
    /\ last.result = Redirect("CredentialInvalid", TRUE, TRUE)
    /\ \E j \in DOMAIN inflight :
          /\ inflight[j].authToken # last.authToken
          /\ inflight[j].isValid.value
          /\ inflight[j].at > last.at

\* the class of the failure of jwt.verify for the credential of the last
\* pass through the gate: "none" when it verified
FailureClass ==
    LET key == IF last.op = "gateKeyFault" THEN "" ELSE JWT_SECRET(env)
        r == jwtVerify(ValueOf(last.cookieBefore), key,
                       VerifyAlgorithms(revision), last.at)
    IN  CASE r = "ok" -> "none"
          [] r = "TokenExpiredError: jwt expired" -> "expired"
          [] r = "JsonWebTokenError: secret or public key must be provided"
                 -> "unusable-key"
          [] OTHER -> "malformed-or-forged"

\* C21: the gate treats every class of verification failure alike.  For a
\* request under the protected prefix whose credential fails verification,
\* be it expired, malformed or forged, or unverifiable because the key is
\* unusable, the auth-token cookie is deleted, the response is the redirect
\* to /login and the request is not forwarded.
C21_FailureClassesAlike ==
    (/\ last.op \in {"gate", "gateKeyFault"}
     /\ last.pathname \in ProtectedPaths
     /\ IsDefined(last.cookieBefore)
     /\ FailureClass \in {"expired", "malformed-or-forged", "unusable-key"}) =>
        /\ last.result = Redirect("CredentialInvalid", TRUE, TRUE)
        /\ cookie = Undefined

\* a credential the login issued, not yet expired, refused because the key
\* is unusable
C21_Witness ==
    /\ last.op = "gateKeyFault"
    /\ last.pathname \in ProtectedPaths
    /\ \E t \in last.cookieBefore :
          IssuedAt(t, last.at) /\ verifyToken(t, revision, env, last.at).value
    /\ FailureClass = "unusable-key"
    /\ last.result.response = "redirect"

GateStates == {"Unprotected", "NoCredential", "CredentialInvalid", "CredentialValid"}

\* C22: a request makes one pass through the gate.  It reaches exactly one
\* of the states Unprotected, NoCredential, CredentialInvalid,
\* CredentialValid, and which one follows from the request alone (its path,
\* its cookie, the clock): Unprotected iff the path is not under the prefix,
\* NoCredential iff it is and there is no cookie, CredentialValid iff it is
\* and jwt.verify accepts the cookie, CredentialInvalid otherwise.  The one
\* response is a forward for Unprotected and CredentialValid and a redirect
\* to /login for NoCredential and CredentialInvalid.
C22_OnePassOneState ==
    last.op = "gate" =>
        LET protected == last.pathname \in ProtectedPaths
            present == IsDefined(last.cookieBefore)
            accepted == \E t \in last.cookieBefore :
                            jwtVerify(t, JWT_SECRET(env),
                                      VerifyAlgorithms(revision), last.at) = "ok"
            st == last.result.state
        IN  /\ st \in GateStates
            /\ st = "Unprotected" <=> ~protected
            /\ st = "NoCredential" <=> protected /\ ~present
            /\ st = "CredentialValid" <=> protected /\ accepted
            /\ st = "CredentialInvalid" <=> protected /\ present /\ ~accepted
            /\ st \in {"Unprotected", "CredentialValid"} =>
                  /\ last.result.response = "next"
                  /\ cookie = last.cookieBefore
            /\ st \in {"NoCredential", "CredentialInvalid"} =>
                  /\ RedirectedToLogin
                  /\ cookie = Undefined

\* a protected request whose cookie is there but holds the empty string,
\* after the clock has advanced
C22_Witness ==
    /\ last.op = "gate"
    /\ last.pathname = PathProjectsX
    /\ last.cookieBefore = Some(EmptyString)
    /\ last.result.state = "CredentialInvalid"
    /\ ticks > 0

\* C23: a credential is issued only by a POST whose password is the
\* configured secret.  The login function calls createAuthToken only after
\* authenticatePassword returned true in the same request, that is only for
\* a POST with the configured secret, and its responses with status 405,
\* 400, 401 and 500 carry no credential.
C23_IssuedOnlyAfterAuthentication ==
    last.op \in {"login", "loginFault"} =>
        LET authenticated ==
                /\ last.event.httpMethod = "POST"
                /\ last.event.body.kind = "object"
                /\ last.event.body.password = Some(ConfiguredSecret)
        IN  /\ last.response.step = "issue" => authenticated
            /\ IsDefined(last.response.token) =>
                  authenticated /\ last.response.statusCode = 200
            /\ last.response.statusCode \in {405, 400, 401, 500} =>
                  last.response.token = NoToken

\* a login with a configured secret was answered with a credential
C23_Witness ==
    /\ last.op = "login"
    /\ env.PROTECTED_PASSWORD = "S3cret"
    /\ last.event.body.password = Some(Str("S3cret"))
    /\ last.response.step = "issue"
    /\ IsDefined(last.response.token)

\* C24: the method check of the login function comes before it touches the
\* body.  A request whose method is not POST is answered 405 whatever its
\* body holds (the configured secret, text that is not JSON, nothing): the
\* handler returns at the method check, so the body is not parsed, the
\* password not compared, and no credential issued.
C24_MethodCheckFirst ==
    (last.op = "login" /\ last.event.httpMethod # "POST") =>
        /\ last.response.statusCode = 405
        /\ last.response.step = "method"
        /\ last.response.token = NoToken
        /\ cookie = last.cookieBefore

\* a GET whose body is not JSON was answered 405
C24_Witness ==
    /\ last.op = "login"
    /\ last.event.httpMethod = "GET"
    /\ last.event.body.kind = "invalid"
    /\ last.response.statusCode = 405

\* the values of the password field JavaScript takes for false, among those
\* the requests of the model carry
FalsyPasswords == {Str(""), Num("0")}

\* C26: the 'secret missing' test of the login function is a falsiness test
\* of the parsed password field.  A POST without a body, with an empty body,
\* with JSON lacking the field, with the empty string or with another falsy
\* value as password is answered 400 at that test, before authenticatePassword
\* is called; the handler never calls authenticatePassword with the empty
\* string.
C26_FalsyPasswordIs400 ==
    LoginPost =>
        LET body == last.event.body
            falsy == \/ body.kind \in {"null", "empty", "primitive"}
                     \/ body.kind = "object" /\ body.password = Undefined
                     \/ body.kind = "object"
                            /\ \E p \in body.password : p \in FalsyPasswords
            compared == last.response.step \in {"password", "issue"}
        IN  /\ falsy => /\ last.response.statusCode = 400
                        /\ last.response.step = "missing"
                        /\ last.response.token = NoToken
            /\ compared => /\ IsDefined(body.password)
                           /\ body.password # Some(Str(""))
                           /\ ~falsy

\* a POST with the empty string as password was answered 400
C26_Witness ==
    /\ LoginPost
    /\ last.event.body.kind = "object"
    /\ last.event.body.password = Some(Str(""))
    /\ last.response.statusCode = 400
    /\ last.response.step = "missing"

\* the cookie holds a credential the login issued, not yet expired
SessionLive ==
    \E t \in cookie : \E T \in t.timestamp :
        IssuedAt(t, T) /\ now >= T /\ now < ExpiryMs(T)

\* a protected request sent now is redirected to /login
SessionDenied ==
    onRequest(PathProjectsX, cookie, revision, env, now).response = "redirect"

\* the requests of a session: forwarded before the expiry of the stored
\* credential, redirected with the cookie cleared at or after it, redirected
\* without a clear when there is no cookie
SessionRequests ==
    ProtectedRequest =>
        /\ \A t \in last.cookieBefore : \A T \in t.timestamp :
              (IssuedAt(t, T) /\ last.at >= T) =>
                  IF last.at < ExpiryMs(T)
                  THEN /\ last.result.response = "next"
                       /\ cookie = last.cookieBefore
                  ELSE /\ RedirectedToLogin
                       /\ last.result.deleted
                       /\ cookie = Undefined
        /\ last.cookieBefore = Undefined =>
              /\ RedirectedToLogin
              /\ ~last.result.deleted
              /\ cookie = Undefined

\* a cookie appears only by the client storing the token of a 200 response
\* of the login function
SessionRegained ==
    (cookie = Undefined /\ cookie' # Undefined) =>
        /\ last.op = "login"
        /\ last.response.statusCode = 200
        /\ cookie' = last.response.token

====
